---- MODULE Spec2Model ----
(***************************************************************************)
(* controller2keys: the translation loop of src/main.rs.                   *)
(*                                                                         *)
(* The loop selects a gamepad, drains the gilrs event queue, translates    *)
(* each event into enigo commands, and sleeps.  Every enigo call is one    *)
(* step of the model, so the states between the two calls of a left-stick  *)
(* event are visible.  Axis values are f32 in [-1, 1]; the model carries   *)
(* them in thousandths (Unit = 1.0), a grid on which the f32 comparison    *)
(* with the deadzone and the f32 product truncated by `as i32` agree with  *)
(* integer arithmetic.                                                     *)
(***************************************************************************)
EXTENDS Integers, Sequences, FiniteSets, TLC

VARIABLES
    gamepads,        \* ids gilrs.gamepads() enumerates
    active_gamepad,  \* Option<GamepadId>: {} is None, {id} is Some(id)
    queue,           \* events gilrs holds, not yet returned by next_event()
    pc,              \* position in main: "elevate", "init_gilrs", "init_enigo",
                     \* then the loop's "select", "drain", "sleep"; "panicked"
                     \* when the process has ended
    priority,        \* what the priority request came to: "unset" before it,
                     \* then "elevated" or "refused"
    gilrs,           \* the event source: "uncreated", "created" or "failed"
    enigo,           \* the injection sink: "uncreated", "created", or "failed"
                     \* when it could not be created
    pending,         \* enigo calls of the current match arm not yet made
    taken,           \* events next_event() has returned, in order
    out,             \* enigo calls made, in order: out[i] are those for taken[i]
    key_state,       \* keys down, as tracked from key_down / key_up calls
    mouse_state      \* mouse buttons down, from mouse_down / mouse_up calls

vars == <<gamepads, active_gamepad, queue, pc, priority, gilrs, enigo, pending,
          taken, out, key_state, mouse_state>>

----------------------------------------------------------------------------
(* Bounds of the model: how many events the event source delivers in a run *)

MaxStickEvents == 3
MaxButtonEvents == 2
MaxPointerEvents == 2
MaxScenarioEvents == 4
MaxBurstEvents == 3
MaxStartupEvents == 3
MaxHotplugEvents == 4
MaxHeldEvents == 3
MaxMixedEvents == 2

----------------------------------------------------------------------------
(* gilrs and enigo vocabulary *)

Unit == 1000

Button == {"South", "East", "North", "West", "C", "Z",
           "LeftTrigger", "LeftTrigger2", "RightTrigger", "RightTrigger2",
           "Select", "Start", "Mode", "LeftThumb", "RightThumb",
           "DPadUp", "DPadDown", "DPadLeft", "DPadRight", "Unknown"}

Axis == {"LeftStickX", "LeftStickY", "LeftZ",
         "RightStickX", "RightStickY", "RightZ",
         "DPadX", "DPadY", "Unknown"}

None == {}
Some(x) == {x}

ButtonPressed(id, button) ==
    [id |-> id, kind |-> "ButtonPressed", button |-> button,
     axis |-> "none", value |-> 0]

ButtonReleased(id, button) ==
    [id |-> id, kind |-> "ButtonReleased", button |-> button,
     axis |-> "none", value |-> 0]

AxisChanged(id, axis, value) ==
    [id |-> id, kind |-> "AxisChanged", button |-> "none",
     axis |-> axis, value |-> value]

OtherEvent(id, kind) ==
    [id |-> id, kind |-> kind, button |-> "none", axis |-> "none", value |-> 0]

KeyDown(key) == [op |-> "key_down", target |-> key, x |-> 0, y |-> 0]
KeyUp(key) == [op |-> "key_up", target |-> key, x |-> 0, y |-> 0]
MouseDown(b) == [op |-> "mouse_down", target |-> b, x |-> 0, y |-> 0]
MouseUp(b) == [op |-> "mouse_up", target |-> b, x |-> 0, y |-> 0]
MouseScrollY(n) == [op |-> "mouse_scroll_y", target |-> "none", x |-> 0, y |-> n]
MouseMoveRelative(dx, dy) ==
    [op |-> "mouse_move_relative", target |-> "none", x |-> dx, y |-> dy]

----------------------------------------------------------------------------
(* Mapping tables, main.rs lines 11-43 *)

\* the d-pad's left and right keys exchanged
BUTTON_MAP_DPadSwapped ==
    [South |-> "Space", East |-> "Shift", West |-> "e", North |-> "e",
     DPadUp |-> "F5", DPadDown |-> "q", DPadLeft |-> "/", DPadRight |-> "b",
     LeftThumb |-> "Control", RightThumb |-> "v",
     Select |-> "Tab", Start |-> "Escape"]

BUTTON_MAP ==
    [South |-> "Space", East |-> "Shift", West |-> "e", North |-> "e",
     DPadUp |-> "F5", DPadDown |-> "q", DPadLeft |-> "b", DPadRight |-> "/",
     LeftThumb |-> "Control", RightThumb |-> "v",
     Select |-> "Tab", Start |-> "Escape"]

MOUSE_BUTTON_MAP == [RightTrigger2 |-> "Left", LeftTrigger2 |-> "Right"]

----------------------------------------------------------------------------
(* Translation of one event, main.rs lines 97-199 *)

deadzone == 150
mouse_speed == 50

Abs(v) == IF v < 0 THEN -v ELSE v

\* rounds toward minus infinity instead
AsI32_Floor(n, d) == n \div d

\* `as i32` on an f32 of magnitude at most 50: truncation toward zero
AsI32(n, d) == IF n >= 0 THEN n \div d ELSE -((-n) \div d)

\* the two scroll directions exchanged
OnButtonPressed_ScrollSwapped(button) ==
    IF button = "LeftTrigger" THEN <<MouseScrollY(1)>>
    ELSE IF button = "RightTrigger" THEN <<MouseScrollY(-1)>>
    ELSE IF button \in DOMAIN BUTTON_MAP THEN <<KeyDown(BUTTON_MAP[button])>>
    ELSE IF button \in DOMAIN MOUSE_BUTTON_MAP
         THEN <<MouseDown(MOUSE_BUTTON_MAP[button])>>
    ELSE <<>>

OnButtonPressed(button) ==
    IF button = "LeftTrigger" THEN <<MouseScrollY(-1)>>
    ELSE IF button = "RightTrigger" THEN <<MouseScrollY(1)>>
    ELSE IF button \in DOMAIN BUTTON_MAP THEN <<KeyDown(BUTTON_MAP[button])>>
    ELSE IF button \in DOMAIN MOUSE_BUTTON_MAP
         THEN <<MouseDown(MOUSE_BUTTON_MAP[button])>>
    ELSE <<>>

\* the mouse buttons are never released
OnButtonReleased_KeysOnly(button) ==
    IF button \in DOMAIN BUTTON_MAP THEN <<KeyUp(BUTTON_MAP[button])>>
    ELSE <<>>

OnButtonReleased(button) ==
    IF button \in DOMAIN BUTTON_MAP THEN <<KeyUp(BUTTON_MAP[button])>>
    ELSE IF button \in DOMAIN MOUSE_BUTTON_MAP
         THEN <<MouseUp(MOUSE_BUTTON_MAP[button])>>
    ELSE <<>>

\* the opposing key is never released
OnLeftStickX_NoRelease(value) ==
    IF Abs(value) > deadzone
    THEN IF value > 0 THEN <<KeyDown("d")>> ELSE <<KeyDown("a")>>
    ELSE <<KeyUp("d"), KeyUp("a")>>

\* the opposing key is released before the intended key is pressed
OnLeftStickX_ReleaseFirst(value) ==
    IF Abs(value) > deadzone
    THEN IF value > 0 THEN <<KeyUp("a"), KeyDown("d")>>
                      ELSE <<KeyUp("d"), KeyDown("a")>>
    ELSE <<KeyUp("d"), KeyUp("a")>>

\* inside the deadzone the keys of the other axis are released
OnLeftStickX_ReleasesY(value) ==
    IF Abs(value) > deadzone
    THEN IF value > 0 THEN <<KeyDown("d"), KeyUp("a")>>
                      ELSE <<KeyDown("a"), KeyUp("d")>>
    ELSE <<KeyUp("w"), KeyUp("s")>>

OnLeftStickX(value) ==
    IF Abs(value) > deadzone
    THEN IF value > 0 THEN <<KeyDown("d"), KeyUp("a")>>
                      ELSE <<KeyDown("a"), KeyUp("d")>>
    ELSE <<KeyUp("d"), KeyUp("a")>>

\* the opposing key is never released
OnLeftStickY_NoRelease(value) ==
    IF Abs(value) > deadzone
    THEN IF value > 0 THEN <<KeyDown("w")>> ELSE <<KeyDown("s")>>
    ELSE <<KeyUp("w"), KeyUp("s")>>

\* the boundary of the deadzone counts as outside it
OnLeftStickY_BoundaryOutside(value) ==
    IF Abs(value) >= deadzone
    THEN IF value > 0 THEN <<KeyDown("w"), KeyUp("s")>>
                      ELSE <<KeyDown("s"), KeyUp("w")>>
    ELSE <<KeyUp("w"), KeyUp("s")>>

OnLeftStickY(value) ==
    IF Abs(value) > deadzone
    THEN IF value > 0 THEN <<KeyDown("w"), KeyUp("s")>>
                      ELSE <<KeyDown("s"), KeyUp("w")>>
    ELSE <<KeyUp("w"), KeyUp("s")>>

\* no deadzone on the pointer
OnRightStickX_NoDeadzone(value) ==
    <<MouseMoveRelative(AsI32(value * mouse_speed, Unit), 0)>>

OnRightStickX(value) ==
    IF Abs(value) > deadzone
    THEN <<MouseMoveRelative(AsI32(value * mouse_speed, Unit), 0)>>
    ELSE <<>>

OnRightStickY(value) ==
    IF Abs(value) > deadzone
    THEN <<MouseMoveRelative(0, AsI32((-value) * mouse_speed, Unit))>>
    ELSE <<>>

\* the two left-stick arms exchanged
OnAxisChanged_LeftSwapped(axis, value) ==
    IF axis = "LeftStickX" THEN OnLeftStickY(value)
    ELSE IF axis = "LeftStickY" THEN OnLeftStickX(value)
    ELSE IF axis = "RightStickX" THEN OnRightStickX(value)
    ELSE IF axis = "RightStickY" THEN OnRightStickY(value)
    ELSE <<>>

OnAxisChanged(axis, value) ==
    IF axis = "LeftStickX" THEN OnLeftStickX(value)
    ELSE IF axis = "LeftStickY" THEN OnLeftStickY(value)
    ELSE IF axis = "RightStickX" THEN OnRightStickX(value)
    ELSE IF axis = "RightStickY" THEN OnRightStickY(value)
    ELSE <<>>

Translate(e) ==
    IF e.kind = "ButtonPressed" THEN OnButtonPressed(e.button)
    ELSE IF e.kind = "ButtonReleased" THEN OnButtonReleased(e.button)
    ELSE IF e.kind = "AxisChanged" THEN OnAxisChanged(e.axis, e.value)
    ELSE <<>>

\* The effect of one enigo call on the keys and mouse buttons held down
KeysAfter(keys, cmd) ==
    IF cmd.op = "key_down" THEN keys \cup {cmd.target}
    ELSE IF cmd.op = "key_up" THEN keys \ {cmd.target}
    ELSE keys

MouseAfter(buttons, cmd) ==
    IF cmd.op = "mouse_down" THEN buttons \cup {cmd.target}
    ELSE IF cmd.op = "mouse_up" THEN buttons \ {cmd.target}
    ELSE buttons

----------------------------------------------------------------------------
(* Startup, main.rs lines 46-87, and the loop, lines 89-204 *)

LoopPcs == {"select", "drain", "sleep"}

Terminated == pc = "panicked"

Min(S) == CHOOSE m \in S : \A n \in S : m <= n

FirstGamepad(pads) == IF pads = {} THEN None ELSE Some(Min(pads))

\* the state when the loop is entered, line 89
Init ==
    /\ gamepads \in {{}, {0}}
    /\ active_gamepad = None
    /\ queue = <<>>
    /\ pc = "select"
    /\ priority \in {"elevated", "refused"}
    /\ gilrs = "created"
    /\ enigo = "created"
    /\ pending = <<>>
    /\ taken = <<>>
    /\ out = <<>>
    /\ key_state = {}
    /\ mouse_state = {}

\* the first gamepad is unwrapped: no gamepad is a panic
SelectGamepad_Unwrap ==
    /\ pc = "select"
    /\ active_gamepad' = IF active_gamepad = None
                         THEN FirstGamepad(gamepads)
                         ELSE active_gamepad
    /\ pc' = IF active_gamepad = None /\ gamepads = {} THEN "panicked" ELSE "drain"
    /\ UNCHANGED <<gamepads, queue, priority, gilrs, enigo, pending, taken, out,
                   key_state, mouse_state>>

\* the gamepad is selected anew in every tick
SelectGamepad_Reselect ==
    /\ pc = "select"
    /\ active_gamepad' = FirstGamepad(gamepads)
    /\ pc' = "drain"
    /\ UNCHANGED <<gamepads, queue, priority, gilrs, enigo, pending, taken, out,
                   key_state, mouse_state>>

\* lines 91-93
SelectGamepad ==
    /\ pc = "select"
    /\ active_gamepad' = IF active_gamepad = None
                         THEN FirstGamepad(gamepads)
                         ELSE active_gamepad
    /\ pc' = "drain"
    /\ UNCHANGED <<gamepads, queue, priority, gilrs, enigo, pending, taken, out,
                   key_state, mouse_state>>

\* an enigo call that changes nothing held is redundant
ChangesHeld(cmd) ==
    \/ cmd.op \in {"mouse_scroll_y", "mouse_move_relative"}
    \/ KeysAfter(key_state, cmd) # key_state
    \/ MouseAfter(mouse_state, cmd) # mouse_state

\* the redundant calls of the match arm are skipped
NextEvent_SkipsRedundant ==
    /\ pc = "drain"
    /\ pending = <<>>
    /\ queue # <<>>
    /\ taken' = Append(taken, Head(queue))
    /\ out' = Append(out, <<>>)
    /\ queue' = Tail(queue)
    /\ pending' = SelectSeq(Translate(Head(queue)), ChangesHeld)
    /\ UNCHANGED <<gamepads, active_gamepad, pc, priority, gilrs, enigo,
                   key_state, mouse_state>>

\* line 96, next_event() returns Some: the match arm's calls become pending
NextEvent ==
    /\ pc = "drain"
    /\ pending = <<>>
    /\ queue # <<>>
    /\ taken' = Append(taken, Head(queue))
    /\ out' = Append(out, <<>>)
    /\ queue' = Tail(queue)
    /\ pending' = Translate(Head(queue))
    /\ UNCHANGED <<gamepads, active_gamepad, pc, priority, gilrs, enigo,
                   key_state, mouse_state>>

\* the match arms whose enigo call is followed by println!: the button arms
\* (lines 103, 108, 113, 119, 130, 136) and the right stick (lines 182, 191)
Logged(event) ==
    \/ event.kind \in {"ButtonPressed", "ButtonReleased"}
    \/ event.kind = "AxisChanged" /\ event.axis \in {"RightStickX", "RightStickY"}

\* one enigo call of the current match arm, and the println! that follows it
\* in the arms that have one: println! panics when standard output cannot be
\* written, with the call already made. main makes the call on whatever
\* handle Enigo::new() returned; on a handle without a sink the call either
\* returns or ends the process
Emit ==
    /\ pc = "drain"
    /\ pending # <<>>
    /\ out' = [out EXCEPT ![Len(out)] = Append(@, Head(pending))]
    /\ key_state' = KeysAfter(key_state, Head(pending))
    /\ mouse_state' = MouseAfter(mouse_state, Head(pending))
    /\ pending' = Tail(pending)
    /\ \E printed, returned \in BOOLEAN :
          /\ enigo = "created" => returned
          /\ pc' = IF returned /\ (printed \/ ~Logged(taken[Len(taken)]))
                      THEN "drain" ELSE "panicked"
    /\ UNCHANGED <<gamepads, active_gamepad, queue, priority, gilrs, enigo,
                   taken>>

\* the while loop ends whether or not events are left
DrainDone_Early ==
    /\ pc = "drain"
    /\ pending = <<>>
    /\ pc' = "sleep"
    /\ UNCHANGED <<gamepads, active_gamepad, queue, priority, gilrs, enigo,
                   pending, taken, out, key_state, mouse_state>>

\* line 96, next_event() returns None: the while loop ends
DrainDone ==
    /\ pc = "drain"
    /\ pending = <<>>
    /\ queue = <<>>
    /\ pc' = "sleep"
    /\ UNCHANGED <<gamepads, active_gamepad, queue, priority, gilrs, enigo,
                   pending, taken, out, key_state, mouse_state>>

\* line 203
Sleep ==
    /\ pc = "sleep"
    /\ pc' = "select"
    /\ UNCHANGED <<gamepads, active_gamepad, queue, priority, gilrs, enigo,
                   pending, taken, out, key_state, mouse_state>>

Loop == SelectGamepad \/ NextEvent \/ Emit \/ DrainDone \/ Sleep

\* The event source queues an event of a connected gamepad (at any time)
Deliver(events, max) ==
    /\ pc \in LoopPcs
    /\ Len(taken) + Len(queue) < max
    /\ \E e \in events :
          /\ e.id \in gamepads
          /\ queue' = Append(queue, e)
    /\ UNCHANGED <<gamepads, active_gamepad, pc, priority, gilrs, enigo, pending,
                   taken, out, key_state, mouse_state>>

\* A gamepad is plugged in: gilrs enumerates it and queues a Connected event
Connect(id, max) ==
    /\ pc \in LoopPcs
    /\ Len(taken) + Len(queue) < max
    /\ id \notin gamepads
    /\ gamepads' = gamepads \cup {id}
    /\ queue' = Append(queue, OtherEvent(id, "Connected"))
    /\ UNCHANGED <<active_gamepad, pc, priority, gilrs, enigo, pending, taken,
                   out, key_state, mouse_state>>

\* A gamepad is unplugged: gilrs no longer enumerates it and queues a
\* Disconnected event
Disconnect(id, max) ==
    /\ pc \in LoopPcs
    /\ Len(taken) + Len(queue) < max
    /\ id \in gamepads
    /\ gamepads' = gamepads \ {id}
    /\ queue' = Append(queue, OtherEvent(id, "Disconnected"))
    /\ UNCHANGED <<active_gamepad, pc, priority, gilrs, enigo, pending, taken,
                   out, key_state, mouse_state>>

\* the state when the process starts, line 45
InitStart ==
    /\ gamepads \in {{}, {0}}
    /\ active_gamepad = None
    /\ queue = <<>>
    /\ pc = "elevate"
    /\ priority = "unset"
    /\ gilrs = "uncreated"
    /\ enigo = "uncreated"
    /\ pending = <<>>
    /\ taken = <<>>
    /\ out = <<>>
    /\ key_state = {}
    /\ mouse_state = {}

\* a refused request ends the process
ElevatePriority_Fatal ==
    /\ pc = "elevate"
    /\ \E granted \in BOOLEAN :
          /\ priority' = IF granted THEN "elevated" ELSE "refused"
          /\ pc' = IF granted THEN "init_gilrs" ELSE "panicked"
    /\ UNCHANGED <<gamepads, active_gamepad, queue, gilrs, enigo, pending, taken,
                   out, key_state, mouse_state>>

\* lines 47-73: the one scheduler call of the platform; its result is dropped
ElevatePriority ==
    /\ pc = "elevate"
    /\ \E granted \in BOOLEAN :
          priority' = IF granted THEN "elevated" ELSE "refused"
    /\ pc' = "init_gilrs"
    /\ UNCHANGED <<gamepads, active_gamepad, queue, gilrs, enigo, pending, taken,
                   out, key_state, mouse_state>>

\* line 76: Gilrs::new().expect(..) panics on Err
InitGilrs ==
    /\ pc = "init_gilrs"
    /\ \E ok \in BOOLEAN :
          /\ gilrs' = IF ok THEN "created" ELSE "failed"
          /\ pc' = IF ok THEN "init_enigo" ELSE "panicked"
    /\ UNCHANGED <<gamepads, active_gamepad, queue, priority, enigo, pending,
                   taken, out, key_state, mouse_state>>

\* line 79: Enigo::new() returns an Enigo, no Result, and main checks
\* nothing: when the sink cannot be created the call either ends the process
\* or returns a handle without a sink, and main goes on with it. Line 84: the
\* println! before the loop panics when standard output cannot be written
InitEnigo ==
    /\ pc = "init_enigo"
    /\ \E ok, returned, printed \in BOOLEAN :
          /\ ok => returned
          /\ enigo' = IF ok THEN "created" ELSE "failed"
          /\ pc' = IF returned /\ printed THEN "select" ELSE "panicked"
    /\ UNCHANGED <<gamepads, active_gamepad, queue, priority, gilrs, pending,
                   taken, out, key_state, mouse_state>>

Startup == ElevatePriority \/ InitGilrs \/ InitEnigo

----------------------------------------------------------------------------
(* What the claims observe *)

\* the event being translated, or translated last
Cur == taken[Len(taken)]

\* the enigo calls made for it so far
CurOut == out[Len(out)]

\* an event has been taken and all its enigo calls are made
Translated == taken # <<>> /\ pending = <<>>

RECURSIVE Flatten(_)
Flatten(seqs) == IF seqs = <<>> THEN <<>> ELSE Head(seqs) \o Flatten(Tail(seqs))

\* every enigo call made so far, in order
Commands == Flatten(out)

IsReading(e, axis) == e.kind = "AxisChanged" /\ e.axis = axis

\* the reading of the axis before the current event, if there is one
PrevIndex(axis) ==
    LET earlier == {i \in 1..(Len(taken) - 1) : IsReading(taken[i], axis)}
    IN  IF earlier = {} THEN 0 ELSE CHOOSE i \in earlier : \A j \in earlier : j <= i

Sign(v) == IF v > 0 THEN 1 ELSE IF v < 0 THEN -1 ELSE 0

\* the current event is a reading of the axis outside the deadzone that follows
\* a reading of the same axis outside the deadzone, of the opposite sign
Reversal(axis) ==
    /\ taken # <<>>
    /\ IsReading(Cur, axis)
    /\ Abs(Cur.value) > deadzone
    /\ PrevIndex(axis) # 0
    /\ Abs(taken[PrevIndex(axis)].value) > deadzone
    /\ Sign(taken[PrevIndex(axis)].value) = -Sign(Cur.value)

BothDown(k1, k2) == k1 \in key_state /\ k2 \in key_state

----------------------------------------------------------------------------
(* Left-stick readings *)

StickValues == {-800, -151, -150, 0, 50, 150, 151, 800}

StickEvents ==
    {AxisChanged(0, a, v) : a \in {"LeftStickX", "LeftStickY"}, v \in StickValues}

DeliverStick == Deliver(StickEvents, MaxStickEvents)

NextStick == DeliverStick \/ Loop

SpecStick == Init /\ [][NextStick]_vars

\* C1: once a left-stick reading is fully translated, 'a' and 'd' are not both
\* down and 'w' and 's' are not both down.
C1_MutualExclusionPerEvent ==
    pending = <<>> => ~BothDown("a", "d") /\ ~BothDown("w", "s")

\* a reversal from left to right has been translated: 'd' is down, 'a' is up
C1_Witness ==
    /\ Translated
    /\ Reversal("LeftStickX")
    /\ Cur.value > 0
    /\ "d" \in key_state
    /\ "a" \notin key_state

\* C2, as stated: after every single enigo call at most one key of each axis
\* is down.
C2_MutualExclusionPerCommand ==
    ~BothDown("a", "d") /\ ~BothDown("w", "s")

\* C2, amended: both keys of an axis are down only between the key_down of the
\* intended key and the key_up of the opposing key of one reading outside the
\* deadzone, the key_up being the one call left to make.
C2_BothDownOnlyMidReading ==
    /\ BothDown("a", "d") =>
          /\ taken # <<>>
          /\ IsReading(Cur, "LeftStickX")
          /\ Abs(Cur.value) > deadzone
          /\ CurOut = <<KeyDown(IF Cur.value > 0 THEN "d" ELSE "a")>>
          /\ pending = <<KeyUp(IF Cur.value > 0 THEN "a" ELSE "d")>>
    /\ BothDown("w", "s") =>
          /\ taken # <<>>
          /\ IsReading(Cur, "LeftStickY")
          /\ Abs(Cur.value) > deadzone
          /\ CurOut = <<KeyDown(IF Cur.value > 0 THEN "w" ELSE "s")>>
          /\ pending = <<KeyUp(IF Cur.value > 0 THEN "s" ELSE "w")>>

\* 's' was down, the stick reversed, 'w' is pressed and 's' not yet released
C2_Witness ==
    /\ BothDown("w", "s")
    /\ Reversal("LeftStickY")
    /\ Len(pending) = 1

\* C3: while a reading outside the deadzone that reverses the previous reading
\* of its axis is translated, at least one key of the axis is down, and between
\* its two calls the key_down of the intended key is made and the key_up of the
\* opposing key is still to make.
C3_PressBeforeRelease ==
    /\ Reversal("LeftStickX") =>
          /\ key_state \cap {"a", "d"} # {}
          /\ Len(pending) = 1 =>
                /\ CurOut = <<KeyDown(IF Cur.value > 0 THEN "d" ELSE "a")>>
                /\ pending = <<KeyUp(IF Cur.value > 0 THEN "a" ELSE "d")>>
    /\ Reversal("LeftStickY") =>
          /\ key_state \cap {"w", "s"} # {}
          /\ Len(pending) = 1 =>
                /\ CurOut = <<KeyDown(IF Cur.value > 0 THEN "w" ELSE "s")>>
                /\ pending = <<KeyUp(IF Cur.value > 0 THEN "s" ELSE "w")>>

\* between the two calls of a reversal from right to left
C3_Witness ==
    /\ Reversal("LeftStickX")
    /\ Cur.value < 0
    /\ Len(pending) = 1
    /\ CurOut = <<KeyDown("a")>>
    /\ "d" \in key_state

\* C4: a left-stick reading v with |v| <= 0.15, once translated, has made
\* key_up calls for both keys of its axis and no other call, and neither key of
\* the axis is down, whatever was held before.
C4_DeadzoneReleasesBoth ==
    (Translated /\ Cur.kind = "AxisChanged" /\ Abs(Cur.value) <= deadzone) =>
        /\ Cur.axis = "LeftStickX" =>
              /\ CurOut = <<KeyUp("d"), KeyUp("a")>>
              /\ key_state \cap {"a", "d"} = {}
        /\ Cur.axis = "LeftStickY" =>
              /\ CurOut = <<KeyUp("w"), KeyUp("s")>>
              /\ key_state \cap {"w", "s"} = {}

\* a reading on the boundary of the deadzone, after one that held 'w' down
C4_Witness ==
    /\ Translated
    /\ IsReading(Cur, "LeftStickY")
    /\ Cur.value = deadzone
    /\ Len(taken) >= 2
    /\ IsReading(taken[Len(taken) - 1], "LeftStickY")
    /\ taken[Len(taken) - 1].value > deadzone
    /\ CurOut = <<KeyUp("w"), KeyUp("s")>>
    /\ "w" \notin key_state

----------------------------------------------------------------------------
(* The end-to-end scenario: one event is queued while the loop sleeps, so   *)
(* each tick drains one event                                              *)

Scenario ==
    <<ButtonPressed(0, "South"), AxisChanged(0, "LeftStickX", 800),
      AxisChanged(0, "LeftStickX", 50), ButtonReleased(0, "South")>>

ScenarioEvents == {Scenario[i] : i \in 1..Len(Scenario)}

DeliverPerTick ==
    /\ pc = "sleep"
    /\ queue = <<>>
    /\ Deliver(ScenarioEvents, MaxScenarioEvents)

NextScenario == DeliverPerTick \/ Loop

SpecScenario == Init /\ [][NextScenario]_vars

\* C5: once ButtonPressed(South), LeftStickX 0.8, LeftStickX 0.05 and
\* ButtonReleased(South) are translated, one per tick, from no key held, the
\* enigo calls made are exactly key_down(Space), key_down('d'), key_up('a'),
\* key_up('d'), key_up('a'), key_up(Space), and no key or mouse button is held.
C5_EndToEnd ==
    (Translated /\ taken = Scenario) =>
        /\ Commands = <<KeyDown("Space"), KeyDown("d"), KeyUp("a"),
                        KeyUp("d"), KeyUp("a"), KeyUp("Space")>>
        /\ key_state = {}
        /\ mouse_state = {}

\* the scenario has run to its end
C5_Witness ==
    /\ Translated
    /\ taken = Scenario
    /\ Len(Commands) = 6
    /\ pc = "sleep"

----------------------------------------------------------------------------
(* Button events *)

ButtonEvents ==
    {ButtonPressed(0, b) : b \in Button} \cup {ButtonReleased(0, b) : b \in Button}

DeliverButton == Deliver(ButtonEvents, MaxButtonEvents)

NextButtons == DeliverButton \/ Loop

SpecButtons == Init /\ [][NextButtons]_vars

\* the table of section 4.1 of the specification
CanonicalKeys ==
    [South |-> "Space", East |-> "Shift", West |-> "e", North |-> "e",
     DPadUp |-> "F5", DPadDown |-> "q", DPadLeft |-> "b", DPadRight |-> "/",
     LeftThumb |-> "Control", RightThumb |-> "v",
     Select |-> "Tab", Start |-> "Escape"]

CanonicalMouseButtons == [RightTrigger2 |-> "Left", LeftTrigger2 |-> "Right"]

Bumpers == {"LeftTrigger", "RightTrigger"}

IsButtonEvent(e) == e.kind \in {"ButtonPressed", "ButtonReleased"}

\* C6: the 14 buttons of the canonical table are each in exactly one of
\* BUTTON_MAP and MOUSE_BUTTON_MAP, a press or release of one of them makes the
\* one call on the target the table gives, and a press or release of a button
\* in neither table that is no bumper makes no call.
C6_MappingCompleteness ==
    /\ DOMAIN BUTTON_MAP \cap DOMAIN MOUSE_BUTTON_MAP = {}
    /\ DOMAIN BUTTON_MAP = DOMAIN CanonicalKeys
    /\ DOMAIN MOUSE_BUTTON_MAP = DOMAIN CanonicalMouseButtons
    /\ Cardinality(DOMAIN BUTTON_MAP \cup DOMAIN MOUSE_BUTTON_MAP) = 14
    /\ (Translated /\ IsButtonEvent(Cur)) =>
          LET b == Cur.button
              down == Cur.kind = "ButtonPressed"
          IN  /\ b \in DOMAIN CanonicalKeys =>
                    CurOut = <<IF down THEN KeyDown(CanonicalKeys[b])
                                       ELSE KeyUp(CanonicalKeys[b])>>
              /\ b \in DOMAIN CanonicalMouseButtons =>
                    CurOut = <<IF down THEN MouseDown(CanonicalMouseButtons[b])
                                       ELSE MouseUp(CanonicalMouseButtons[b])>>
              /\ b \notin (DOMAIN CanonicalKeys \cup DOMAIN CanonicalMouseButtons
                            \cup Bumpers) =>
                    CurOut = <<>>

\* a mapped trigger was pressed, then a button of neither table: no call
C6_Witness ==
    /\ Translated
    /\ taken = <<ButtonPressed(0, "LeftTrigger2"), ButtonPressed(0, "Mode")>>
    /\ out = <<(<<MouseDown("Right")>>), <<>>>>

\* C7: a press of the left bumper makes one mouse_scroll_y(-1) call, a press of
\* the right bumper one mouse_scroll_y(1) call, and nothing else; a release of
\* either makes no call; no key or mouse button changes.
C7_ScrollTriggers ==
    (Translated /\ IsButtonEvent(Cur) /\ Cur.button \in Bumpers) =>
        IF Cur.kind = "ButtonPressed"
        THEN CurOut = <<MouseScrollY(IF Cur.button = "LeftTrigger" THEN -1 ELSE 1)>>
        ELSE CurOut = <<>>

\* the left bumper was pressed and released: one scroll down, nothing held
C7_Witness ==
    /\ Translated
    /\ taken = <<ButtonPressed(0, "LeftTrigger"), ButtonReleased(0, "LeftTrigger")>>
    /\ out = <<(<<MouseScrollY(-1)>>), <<>>>>
    /\ key_state = {}
    /\ mouse_state = {}

RECURSIVE KeysOf(_)
KeysOf(cmds) ==
    IF cmds = <<>> THEN {}
    ELSE LET n == Len(cmds) IN
         IF cmds[n].op = "key_down" THEN KeysOf(SubSeq(cmds, 1, n - 1)) \cup {cmds[n].target}
         ELSE IF cmds[n].op = "key_up" THEN KeysOf(SubSeq(cmds, 1, n - 1)) \ {cmds[n].target}
         ELSE KeysOf(SubSeq(cmds, 1, n - 1))

RECURSIVE MouseButtonsOf(_)
MouseButtonsOf(cmds) ==
    IF cmds = <<>> THEN {}
    ELSE LET n == Len(cmds) IN
         IF cmds[n].op = "mouse_down"
         THEN MouseButtonsOf(SubSeq(cmds, 1, n - 1)) \cup {cmds[n].target}
         ELSE IF cmds[n].op = "mouse_up"
         THEN MouseButtonsOf(SubSeq(cmds, 1, n - 1)) \ {cmds[n].target}
         ELSE MouseButtonsOf(SubSeq(cmds, 1, n - 1))

\* the up-call that mirrors the calls of a press
Mirror(cmds) ==
    IF cmds = <<>> THEN <<>>
    ELSE IF cmds[1].op = "key_down" THEN <<KeyUp(cmds[1].target)>>
    ELSE IF cmds[1].op = "mouse_down" THEN <<MouseUp(cmds[1].target)>>
    ELSE <<>>

\* C10: when a ButtonReleased directly follows the ButtonPressed of the same
\* button, its calls are the up-call for the target of the press's down-call
\* (none if the press made no down-call), and if that target was up before the
\* press, the keys and mouse buttons held are again those held before it.
C10_ReleaseMirrorsPress ==
    LET n == Len(taken) IN
    (/\ Translated
     /\ n >= 2
     /\ Cur.kind = "ButtonReleased"
     /\ taken[n - 1] = ButtonPressed(Cur.id, Cur.button)) =>
        LET before == Flatten(SubSeq(out, 1, n - 2))
            targetUp == \A i \in 1..Len(out[n - 1]) :
                            out[n - 1][i].target \notin
                                (KeysOf(before) \cup MouseButtonsOf(before))
        IN  /\ Len(out[n - 1]) <= 1
            /\ CurOut = Mirror(out[n - 1])
            /\ targetUp => /\ key_state = KeysOf(before)
                            /\ mouse_state = MouseButtonsOf(before)

\* the right trigger was pressed and released: the left mouse button is up again
C10_Witness ==
    /\ Translated
    /\ taken = <<ButtonPressed(0, "RightTrigger2"), ButtonReleased(0, "RightTrigger2")>>
    /\ out = <<(<<MouseDown("Left")>>), <<MouseUp("Left")>>>>
    /\ mouse_state = {}

----------------------------------------------------------------------------
(* Right-stick readings *)

PointerValues ==
    {-1000, -996, -500, -155, -151, -150, -50, 0,
     50, 150, 151, 155, 470, 500, 996, 1000}

PointerEvents ==
    {AxisChanged(0, a, v) : a \in {"RightStickX", "RightStickY"}, v \in PointerValues}

DeliverPointer == Deliver(PointerEvents, MaxPointerEvents)

NextPointer == DeliverPointer \/ Loop

SpecPointer == Init /\ [][NextPointer]_vars

\* v * 50 rounded to the nearest integer, halves away from zero (f32::round)
Round(n, d) ==
    IF n >= 0 THEN (2 * n + d) \div (2 * d) ELSE -((2 * (-n) + d) \div (2 * d))

IsMove(cmds, dx, dy) == cmds = <<MouseMoveRelative(dx, dy)>>

\* C8, as stated: outside the deadzone a right-stick reading v moves the mouse
\* by round(v * 50) on X, by round(-v * 50) on Y.
C8_PointerScalingRound ==
    (Translated /\ Cur.kind = "AxisChanged" /\ Abs(Cur.value) > deadzone) =>
        /\ Cur.axis = "RightStickX" =>
              IsMove(CurOut, Round(Cur.value * 50, Unit), 0)
        /\ Cur.axis = "RightStickY" =>
              IsMove(CurOut, 0, Round((-Cur.value) * 50, Unit))

\* m is x / Unit with its fraction dropped: the integer of the sign of x
\* with |m| <= |x / Unit| < |m| + 1
IsTruncationOf(m, x) ==
    /\ Abs(m) * Unit <= Abs(x)
    /\ Abs(x) < (Abs(m) + 1) * Unit
    /\ m # 0 => Sign(m) = Sign(x)

\* C8, amended: the movement is v * 50 truncated toward zero, on X, and
\* -v * 50 truncated toward zero, on Y; v = 0.5 gives 25 and -25.
C8_PointerScalingTruncates ==
    (Translated /\ Cur.kind = "AxisChanged" /\ Abs(Cur.value) > deadzone) =>
        /\ Cur.axis = "RightStickX" =>
              /\ Len(CurOut) = 1
              /\ CurOut[1].op = "mouse_move_relative"
              /\ CurOut[1].y = 0
              /\ IsTruncationOf(CurOut[1].x, Cur.value * 50)
              /\ Cur.value = 500 => CurOut[1].x = 25
        /\ Cur.axis = "RightStickY" =>
              /\ Len(CurOut) = 1
              /\ CurOut[1].op = "mouse_move_relative"
              /\ CurOut[1].x = 0
              /\ IsTruncationOf(CurOut[1].y, (-Cur.value) * 50)
              /\ Cur.value = 500 => CurOut[1].y = -25

\* RightStickY at 0.996: -49.8 becomes -49, not -50
C8_Witness ==
    /\ Translated
    /\ Cur = AxisChanged(0, "RightStickY", 996)
    /\ CurOut = <<MouseMoveRelative(0, -49)>>

\* C9: a right-stick reading makes a mouse_move_relative call iff |v| > 0.15:
\* inside the deadzone no call at all, outside it exactly one, non-zero on the
\* stick's axis and zero on the other.
C9_NoDriftInDeadzone ==
    (Translated /\ Cur.kind = "AxisChanged"
                /\ Cur.axis \in {"RightStickX", "RightStickY"}) =>
        IF Abs(Cur.value) > deadzone
        THEN /\ Len(CurOut) = 1
             /\ CurOut[1].op = "mouse_move_relative"
             /\ IF Cur.axis = "RightStickX"
                THEN CurOut[1].x # 0 /\ CurOut[1].y = 0
                ELSE CurOut[1].y # 0 /\ CurOut[1].x = 0
        ELSE CurOut = <<>>

\* a reading on the deadzone's boundary made no call, the next one just outside
\* it moved the pointer by 7
C9_Witness ==
    /\ Translated
    /\ taken = <<AxisChanged(0, "RightStickX", -150), AxisChanged(0, "RightStickX", 151)>>
    /\ out = <<(<<>>), <<MouseMoveRelative(7, 0)>>>>

----------------------------------------------------------------------------
(* A burst: the source queues events only until the loop takes the first   *)

SampleEvents ==
    {ButtonPressed(0, "South"), ButtonReleased(0, "South"),
     AxisChanged(0, "LeftStickX", 800), AxisChanged(0, "RightStickX", 800)}

DeliverBurst ==
    /\ taken = <<>>
    /\ Deliver(SampleEvents, MaxBurstEvents)

NextBurst == DeliverBurst \/ Loop

SpecBurst == Init /\ [][NextBurst]_vars

\* event i has been taken and all its enigo calls are made
Done(i) == Len(taken) > i \/ (Len(taken) = i /\ pending = <<>>)

\* the calls made for every event are those of its match arm, in order
EachTranslatedOnce ==
    /\ Len(out) = Len(taken)
    /\ \A i \in 1..Len(taken) :
          IF Done(i) THEN out[i] = Translate(taken[i])
                     ELSE out[i] \o pending = Translate(taken[i])

\* C11: main leaves its while loop for the sleep only when the queue is empty
\* with nothing left to translate (otherwise it leaves it only by the process
\* ending in a println!), while an event is queued it does not go to the
\* sleep, and a burst of k events queued before the first is taken is taken
\* and translated whole before the loop sleeps again.
C11_DrainAllBeforeSleep ==
    /\ [][(pc = "drain" /\ pc' # "drain") =>
            ((pc' = "sleep" /\ queue = <<>> /\ pending = <<>>)
                \/ (pc' = "panicked" /\ taken # <<>> /\ Logged(Cur)))]_vars
    /\ [][(pc = "drain" /\ queue # <<>>) => pc' \in {"drain", "panicked"}]_vars
    /\ []((pc \in {"sleep", "select"} /\ taken # <<>>) =>
            (queue = <<>> /\ pending = <<>> /\ EachTranslatedOnce))

\* a burst of at least two events was drained in one tick; the loop sleeps
C11_Witness ==
    /\ pc = "sleep"
    /\ Len(taken) >= 2
    /\ queue = <<>>
    /\ Commands # <<>>

----------------------------------------------------------------------------
(* The process from its start *)

DeliverStartup == Deliver(SampleEvents, MaxStartupEvents)

NextStartup == Startup \/ DeliverStartup \/ Loop

SpecStartup == InitStart /\ [][NextStartup]_vars

\* the process runs: main's next step is eventually taken
SpecLive == SpecStartup /\ WF_vars(Startup \/ Loop)

\* C14: when the event source or the sink cannot be created the process has
\* ended, at once (after a failed source the sink is never created), no event
\* was taken and no enigo call made; an ended process takes no further step;
\* the loop runs only with both created.
C14_FatalInitialization ==
    /\ []((gilrs = "failed" \/ enigo = "failed") =>
            /\ pc = "panicked"
            /\ taken = <<>> /\ out = <<>> /\ queue = <<>>
            /\ active_gamepad = None
            /\ key_state = {} /\ mouse_state = {})
    /\ [](gilrs = "failed" => enigo = "uncreated")
    /\ [](pc \in LoopPcs => (gilrs = "created" /\ enigo = "created"))
    /\ [][pc # "panicked"]_vars

\* C15: the priority request is made once, as main's first step, before the
\* event source is created; granted or refused, main goes on to create the
\* event source (the process never ends before that creation is attempted),
\* the loop is reached after either answer, and the calls made for the events
\* taken are those of their match arms either way.
C15_PriorityBestEffort ==
    /\ [][priority' # priority =>
            /\ pc = "elevate" /\ priority = "unset" /\ gilrs = "uncreated"
            /\ priority' \in {"elevated", "refused"}]_vars
    /\ [][pc = "elevate" => pc' = "init_gilrs"]_vars
    /\ [](pc # "elevate" => priority \in {"elevated", "refused"})
    /\ [](pc = "panicked" => gilrs # "uncreated")
    /\ [](EachTranslatedOnce)

\* the request was refused, and the loop has translated an event and sleeps
C15_Witness ==
    /\ priority = "refused"
    /\ pc = "sleep"
    /\ Translated
    /\ Commands # <<>>

\* C20: once in the loop main stays in it (the process does not end); the
\* events taken followed by the events queued only grow at the end (an event
\* leaves the queue only by being taken, in queue order, once); each event's
\* calls are those of its match arm, made once, event after event; every
\* queued event is eventually taken and translated; and the loop sleeps again
\* and again.
C20_EveryEventOnceInOrder ==
    /\ [][(pc \in LoopPcs) => (pc' \in LoopPcs)]_vars
    /\ [][LET old == taken \o queue
              new == taken' \o queue'
          IN  \/ new = old
              \/ Len(new) = Len(old) + 1 /\ SubSeq(new, 1, Len(old)) = old]_vars
    /\ [][Len(taken') \in {Len(taken), Len(taken) + 1}]_vars
    /\ [](EachTranslatedOnce)
    /\ \A n \in 1..MaxStartupEvents :
          (Len(taken) + Len(queue) >= n) ~> Done(n)
    /\ [](pc \in LoopPcs => <>(pc = "sleep"))

----------------------------------------------------------------------------
(* Gamepads come and go *)

GamepadIds == {0, 1}

HotplugEvents ==
    {ButtonPressed(id, "South") : id \in GamepadIds}
        \cup {AxisChanged(id, "RightStickX", 800) : id \in GamepadIds}

DeliverHotplug == Deliver(HotplugEvents, MaxHotplugEvents)

ConnectGamepad == \E id \in GamepadIds : Connect(id, MaxHotplugEvents)

DisconnectGamepad == \E id \in GamepadIds : Disconnect(id, MaxHotplugEvents)

NextHotplug == ConnectGamepad \/ DisconnectGamepad \/ DeliverHotplug \/ Loop

SpecHotplug == Init /\ [][NextHotplug]_vars

\* no gamepad is enumerated and none has been since the loop was entered
\* (every plugging and unplugging queues an event)
NoControllerYet == gamepads = {} /\ taken = <<>> /\ queue = <<>>

\* C12: while no gamepad is enumerated (and none has been), active_gamepad is
\* None, main is in its loop and has not panicked, and no enigo call is made;
\* while that lasts main moves only from the selection to the draining, from
\* there to the sleep and from the sleep to the selection, so one sleep lies
\* between two selection attempts.
C12_NoControllerIdles ==
    /\ [](NoControllerYet =>
            /\ active_gamepad = None
            /\ pc \in LoopPcs
            /\ out = <<>> /\ pending = <<>>
            /\ key_state = {} /\ mouse_state = {})
    /\ [][(NoControllerYet /\ pc' # pc) =>
            (<<pc, pc'>> \in {<<"select", "drain">>,
                              <<"drain", "sleep">>,
                              <<"sleep", "select">>})]_vars

\* a tick without a gamepad has selected nothing, drained nothing, and sleeps
C12_Witness ==
    /\ NoControllerYet
    /\ pc = "sleep"
    /\ active_gamepad = None
    /\ out = <<>>

\* C13: active_gamepad starts None; it changes only in the selection step of a
\* tick in which it is None, to the first enumerated gamepad; once it holds an
\* id it keeps it, whatever is plugged or unplugged.
C13_ActiveSetOnce ==
    /\ active_gamepad = None
    /\ [][active_gamepad # None => active_gamepad' = active_gamepad]_vars
    /\ [][active_gamepad' # active_gamepad =>
            /\ pc = "select"
            /\ active_gamepad = None
            /\ gamepads # {}
            /\ active_gamepad' = Some(Min(gamepads))]_vars

\* gamepad 0 was selected and then unplugged, gamepad 1 is plugged in, and a
\* tick starts: active_gamepad is 0
C13_Witness ==
    /\ active_gamepad = Some(0)
    /\ gamepads = {1}
    /\ pc = "select"

\* C16: enigo calls are made only for events of the active gamepad: an event
\* taken while active_gamepad is None, or of another gamepad, makes no call.
C16_OnlyActiveGamepadTranslated ==
    (taken # <<>> /\ CurOut # <<>>) => active_gamepad = Some(Cur.id)

----------------------------------------------------------------------------
(* Buttons held together *)

HeldEvents ==
    LET buttons == {"West", "North", "South", "RightTrigger2"}
    IN  {ButtonPressed(0, b) : b \in buttons}
            \cup {ButtonReleased(0, b) : b \in buttons}

DeliverHeld == Deliver(HeldEvents, MaxHeldEvents)

NextHeld == DeliverHeld \/ Loop

SpecHeld == Init /\ [][NextHeld]_vars

\* the buttons pressed and not released since, in a sequence of events
RECURSIVE HeldButtons(_)
HeldButtons(events) ==
    IF events = <<>> THEN {}
    ELSE LET n == Len(events)
             held == HeldButtons(SubSeq(events, 1, n - 1))
         IN  IF events[n].kind = "ButtonPressed" THEN held \cup {events[n].button}
             ELSE IF events[n].kind = "ButtonReleased" THEN held \ {events[n].button}
             ELSE held

\* every button's presses and releases alternate, a press first
RECURSIVE Alternating(_)
Alternating(events) ==
    \/ events = <<>>
    \/ LET n == Len(events)
           before == SubSeq(events, 1, n - 1)
       IN  /\ Alternating(before)
           /\ events[n].kind = "ButtonPressed" =>
                  events[n].button \notin HeldButtons(before)
           /\ events[n].kind = "ButtonReleased" =>
                  events[n].button \in HeldButtons(before)

\* C17: when every button's presses and releases alternate, a press first,
\* then once an event is translated every held button of the key table has its
\* key down and every held trigger of the mouse table its mouse button down.
C17_HeldButtonsKeepTheirKey ==
    (Translated /\ Alternating(taken)) =>
        \A b \in HeldButtons(taken) :
            /\ b \in DOMAIN CanonicalKeys => CanonicalKeys[b] \in key_state
            /\ b \in DOMAIN CanonicalMouseButtons =>
                  CanonicalMouseButtons[b] \in mouse_state

----------------------------------------------------------------------------
(* Events of every kind *)

MixedEvents ==
    LET buttons == {"South", "West", "LeftTrigger2", "LeftTrigger", "Mode"}
    IN  {ButtonPressed(0, b) : b \in buttons}
            \cup {ButtonReleased(0, b) : b \in buttons}
            \cup {AxisChanged(0, "LeftStickX", v) : v \in {-800, 50, 800}}
            \cup {AxisChanged(0, "LeftStickY", v) : v \in {50, 800}}
            \cup {AxisChanged(0, a, 800) : a \in {"RightStickX", "RightStickY",
                                                   "LeftZ", "DPadX"}}
            \cup {OtherEvent(0, k) : k \in {"ButtonRepeated", "ButtonChanged",
                                            "Dropped"}}

DeliverMixed == Deliver(MixedEvents, MaxMixedEvents)

NextMixed == DeliverMixed \/ Loop

SpecMixed == Init /\ [][NextMixed]_vars

\* the keys, and the mouse buttons, whose state a step changes
KeysChanged == (key_state' \ key_state) \cup (key_state \ key_state')
MouseButtonsChanged == (mouse_state' \ mouse_state) \cup (mouse_state \ mouse_state')

\* C18: a step that changes a key or a mouse button is a call made for the
\* current event, and: for LeftStickX only 'a' or 'd' changes, for LeftStickY
\* only 'w' or 's'; for a press or release of a button of the key table only
\* that button's key, which is none of 'a', 'd', 'w', 's'; for a trigger of the
\* mouse table only its mouse button; for any other event nothing changes.
C18_FrameOfEachEvent ==
    [][(KeysChanged # {} \/ MouseButtonsChanged # {}) =>
        /\ taken # <<>>
        /\ taken' = taken
        /\ \/ /\ IsReading(Cur, "LeftStickX")
              /\ KeysChanged \subseteq {"a", "d"}
              /\ MouseButtonsChanged = {}
           \/ /\ IsReading(Cur, "LeftStickY")
              /\ KeysChanged \subseteq {"w", "s"}
              /\ MouseButtonsChanged = {}
           \/ /\ IsButtonEvent(Cur)
              /\ Cur.button \in DOMAIN CanonicalKeys
              /\ KeysChanged = {CanonicalKeys[Cur.button]}
              /\ KeysChanged \cap {"a", "d", "w", "s"} = {}
              /\ MouseButtonsChanged = {}
           \/ /\ IsButtonEvent(Cur)
              /\ Cur.button \in DOMAIN CanonicalMouseButtons
              /\ MouseButtonsChanged = {CanonicalMouseButtons[Cur.button]}
              /\ KeysChanged = {}]_vars

\* South is held and the stick is pushed right: 'd' went down, Space stayed
C18_Witness ==
    /\ Translated
    /\ taken = <<ButtonPressed(0, "South"), AxisChanged(0, "LeftStickX", 800)>>
    /\ key_state = {"Space", "d"}
    /\ mouse_state = {}

----------------------------------------------------------------------------
(* Left-stick readings again *)

\* C19: the calls made for a left-stick reading depend on its axis and value
\* only (two readings of the same axis and value have the same calls, whatever
\* came before), and a reading that repeats the one just before it leaves the
\* keys held as that one left them.
C19_StatelessIdempotent ==
    LET n == Len(taken) IN
    /\ \A i, j \in 1..n :
          (/\ Done(i) /\ Done(j)
           /\ taken[i].kind = "AxisChanged"
           /\ taken[i].axis \in {"LeftStickX", "LeftStickY"}
           /\ taken[i].axis = taken[j].axis
           /\ taken[i].value = taken[j].value) => out[i] = out[j]
    /\ (Translated /\ n >= 2 /\ taken[n] = taken[n - 1]
          /\ Cur.kind = "AxisChanged"
          /\ Cur.axis \in {"LeftStickX", "LeftStickY"}) =>
             key_state = KeysOf(Flatten(SubSeq(out, 1, n - 1)))

\* the stick went left, then right twice: the second reading to the right made
\* the same two calls as the first and left 'd' down
C19_Witness ==
    /\ Translated
    /\ taken = <<AxisChanged(0, "LeftStickX", -800),
                 AxisChanged(0, "LeftStickX", 800),
                 AxisChanged(0, "LeftStickX", 800)>>
    /\ out[3] = out[2]
    /\ out[3] = <<KeyDown("d"), KeyUp("a")>>
    /\ key_state = {"d"}

====
